---- MODULE Spec2Model ----
(***************************************************************************)
(* nature-remo-exporter: the refresh goroutine of rootCmd.RunE, the        *)
(* update closure, Metrics.Set and the /metrics serving path, as a state   *)
(* machine.  One action per step of cmd/root.go between two points where   *)
(* another goroutine (the HTTP server, the ticker, the context's owner)    *)
(* can interleave.                                                         *)
(***************************************************************************)
EXTENDS Integers, Sequences, FiniteSets, TLC

\* ---------------------------------------------------------------- bounds
MaxCycles == 3      \* update calls started in one run
MaxValue  == 1      \* sensor levels are 0..MaxValue
MaxTime   == 3      \* movement events are observed at 1..MaxTime

\* ------------------------------------------------------- the API's data
SensorTypeTemperature  == "te"
SensorTypeHumidity     == "hu"
SensorTypeIllumination == "il"
SensorTypeMovement     == "mo"

Kinds == <<SensorTypeMovement, SensorTypeTemperature,
           SensorTypeHumidity, SensorTypeIllumination>>

KindSet == {Kinds[i] : i \in 1..Len(Kinds)}

Levels == 0..MaxValue
Times  == 1..MaxTime

\* The Value the API reports for sensor kind number i at level v: every
\* kind has its own range, so a reading of one kind is never mistaken for
\* a reading of another.
Reading(i, v) == (i - 1) * (MaxValue + 1) + v

\* newest_events of a device that reports the kinds in ks, at level v, its
\* movement event observed at t.
Events(ks, v, t) ==
    [k \in ks |->
        [Value     |-> Reading(CHOOSE i \in 1..Len(Kinds) : Kinds[i] = k, v),
         CreatedAt |-> IF k = SensorTypeMovement THEN t ELSE 1]]

\* natureremo.Device, the fields RunE reads.
Device(id, name, ev) ==
    [ID              |-> id,
     Name            |-> name,
     FirmwareVersion |-> "Remo/1.0.62",
     MacAddress      |-> "mac-" \o id,
     SerialNumber    |-> "sn-" \o id,
     NewestEvents    |-> ev]

Names == {"living", "bed"}

\* d1 is a Remo: all four sensors, or no newest event at all (a device that
\* has not reported yet); its owner may rename it.
RemoSnapshots ==
    {Device("d1", n, Events(KindSet, v, t)) : n \in Names, v \in Levels, t \in Times}
    \cup {Device("d1", n, Events({}, 0, 1)) : n \in Names}

\* d2 is a Remo mini: a temperature sensor only.
MiniSnapshots ==
    {Device("d2", "mini", Events({SensorTypeTemperature}, v, 1)) : v \in Levels}

\* What DeviceService.GetAll can answer: the user's devices, each at most
\* once, in the account's order.
ApiResponses ==
    {<<>>}
    \cup {<<d>> : d \in RemoSnapshots \cup MiniSnapshots}
    \cup {<<a, b>> : a \in RemoSnapshots, b \in MiniSnapshots}

\* The answers that list at most one device, the Remo never renamed.
SingleResponses ==
    {r \in ApiResponses :
        Len(r) <= 1 /\ \A i \in 1..Len(r) : r[i].Name \in {"living", "mini"}}

\* ------------------------------------------------------ prometheus vecs
\* A GaugeVec / CounterVec: a function from the label sets that have a
\* child to the child's value.  A fresh vec has no child.
EmptyVec == [l \in {} |-> 0]

\* Mutant of WithSet: the vec is reset before the child is set, so only
\* the series written last survives.
WithSet_Reset(vec, labels, v) ==
    [l \in {labels} |-> v]

\* vec.With(labels).Set(v)
WithSet(vec, labels, v) ==
    [l \in DOMAIN vec \cup {labels} |-> IF l = labels THEN v ELSE vec[l]]

\* Mutant of WithAdd: the counter is set to n instead of increased by n.
WithAdd_Set(vec, labels, n) ==
    [l \in DOMAIN vec \cup {labels} |-> IF l = labels THEN n ELSE vec[l]]

\* vec.With(labels).Add(n)
WithAdd(vec, labels, n) ==
    [l \in DOMAIN vec \cup {labels} |->
        IF l = labels
        THEN (IF labels \in DOMAIN vec THEN vec[labels] ELSE 0) + n
        ELSE vec[l]]

\* prometheus.Labels built in Metrics.Set.
Labels(device) ==
    [id               |-> device.ID,
     name             |-> device.Name,
     firmware_version |-> device.FirmwareVersion,
     mac_address      |-> device.MacAddress,
     serial_number    |-> device.SerialNumber]

\* device.NewestEvents[kind].Value: a Go map lookup, the zero SensorValue
\* when the kind is missing.
EventValue(device, kind) ==
    IF kind \in DOMAIN device.NewestEvents
    THEN device.NewestEvents[kind].Value
    ELSE 0

NewMetrics ==
    [Temperature  |-> EmptyVec,
     Humidity     |-> EmptyVec,
     Illumination |-> EmptyVec,
     Movement     |-> EmptyVec]

\* deviceLabels of NewMetrics: the label names every vec is created with.
deviceLabels == {"id", "name", "firmware_version", "mac_address", "serial_number"}

\* The device series RunE registers: namespace "nature_remo" and the Name
\* of each of the four GaugeVecs handed to reg.MustRegister.
Registered ==
    {"nature_remo_temperature", "nature_remo_humidity",
     "nature_remo_illumination", "nature_remo_movement"}

\* Mutant of SetGauges: the humidity gauge is fed the temperature reading.
SetGauges_Swapped(m, device) ==
    [Temperature  |-> WithSet(m.Temperature, Labels(device),
                              EventValue(device, SensorTypeTemperature)),
     Humidity     |-> WithSet(m.Humidity, Labels(device),
                              EventValue(device, SensorTypeTemperature)),
     Illumination |-> WithSet(m.Illumination, Labels(device),
                              EventValue(device, SensorTypeIllumination)),
     Movement     |-> WithSet(m.Movement, Labels(device),
                              EventValue(device, SensorTypeMovement))]

\* One iteration of the loop of Metrics.Set.
SetGauges(m, device) ==
    [Temperature  |-> WithSet(m.Temperature, Labels(device),
                              EventValue(device, SensorTypeTemperature)),
     Humidity     |-> WithSet(m.Humidity, Labels(device),
                              EventValue(device, SensorTypeHumidity)),
     Illumination |-> WithSet(m.Illumination, Labels(device),
                              EventValue(device, SensorTypeIllumination)),
     Movement     |-> WithSet(m.Movement, Labels(device),
                              EventValue(device, SensorTypeMovement))]

\* The gauge of a sensor kind.
GaugeOf(m, kind) ==
    CASE kind = SensorTypeTemperature  -> m.Temperature
      [] kind = SensorTypeHumidity     -> m.Humidity
      [] kind = SensorTypeIllumination -> m.Illumination
      [] kind = SensorTypeMovement     -> m.Movement

\* ------------------------------------- the movement-event counter (README:
\* nature_remo_movement_counter; its code is not in cmd/root.go as given,
\* it is modelled from the design document, section 4.2 steps 4 and 5)
HasMovement(device) == SensorTypeMovement \in DOMAIN device.NewestEvents

ObservedAt(device) == device.NewestEvents[SensorTypeMovement].CreatedAt

\* Mutant of MovementIncrement: a device seen for the first time counts as
\* a new event.
MovementIncrement_NoBaseline(last, device) ==
    IF ~HasMovement(device) THEN 0
    ELSE IF device.ID \notin DOMAIN last THEN 1
    ELSE IF last[device.ID] = ObservedAt(device) THEN 0
    ELSE 1

MovementIncrement(last, device) ==
    IF ~HasMovement(device) THEN 0
    ELSE IF device.ID \notin DOMAIN last THEN 0
    ELSE IF last[device.ID] = ObservedAt(device) THEN 0
    ELSE 1

RecordMovement(last, device) ==
    IF ~HasMovement(device) THEN last
    ELSE [i \in DOMAIN last \cup {device.ID} |->
            IF i = device.ID THEN ObservedAt(device) ELSE last[i]]

\* ----------------------------------------------------------------- state
VARIABLES
    pc,            \* where the refresh goroutine is
    kind,          \* the call site of the update in progress
    cycles,        \* update calls started so far
    devices,       \* update's local: what GetAll returned
    idx,           \* Metrics.Set's loop position in devices
    ctxDone,       \* cmd.Context().Done() is closed
    ticker,        \* "none", "running", "stopped"
    tickPending,   \* a tick sits in ticker.C (capacity 1)
    main,          \* the goroutine running RunE: "setup", "serving", "exit1", "killed"
    metrics,       \* the four GaugeVecs
    counter,       \* the movement-event CounterVec
    lastMovement,  \* device id -> last recorded movement observed_at
    scrape,        \* per client: <<the response being sent>>, or NoScrape
    \* history, read by the properties only
    errors,        \* update errors logged
    cycle0,        \* "pending", "running", "ok", "failed"
    stopCause,     \* why the goroutine returned: "none", "cancel", "error"
    cancelAt,      \* pc when the context was cancelled, "never" before
    lateCycles,    \* update calls started after the cancellation
    lateErrors,    \* errors logged after the cancellation
    snapshot,      \* the list of the last update that returned nil
    written        \* per series, the last value an update wrote

vars == <<pc, kind, cycles, devices, idx, ctxDone, ticker, tickPending, main,
          metrics, counter, lastMovement, scrape, errors, cycle0, stopCause,
          cancelAt, lateCycles, lateErrors, snapshot, written>>

sched   == <<pc, kind, cycles, devices, idx>>
timer   == <<ticker, tickPending>>
store   == <<metrics, counter, lastMovement>>
late    == <<cancelAt, lateCycles, lateErrors>>

NoScrape == <<>>

\* The clients that scrape /metrics; net/http serves each request on a
\* goroutine of its own.
Scrapers == {"s1", "s2"}

\* A single client.
OneScraper == {"s1"}

\* What a scrape renders: the children of the registered collectors.
Collect(m, c) ==
    [nature_remo_temperature      |-> m.Temperature,
     nature_remo_humidity         |-> m.Humidity,
     nature_remo_illumination     |-> m.Illumination,
     nature_remo_movement         |-> m.Movement,
     nature_remo_movement_counter |-> c]

Running == main \in {"setup", "serving"}

Init ==
    /\ pc = "start"
    /\ kind = "none"
    /\ cycles = 0
    /\ devices = <<>>
    /\ idx = 0
    /\ ctxDone = FALSE
    /\ ticker = "none"
    /\ tickPending = FALSE
    /\ main = "setup"
    /\ metrics = NewMetrics
    /\ counter = EmptyVec
    /\ lastMovement = EmptyVec
    /\ scrape = [c \in Scrapers |-> NoScrape]
    /\ errors = 0
    /\ cycle0 = "pending"
    /\ stopCause = "none"
    /\ cancelAt = "never"
    /\ lateCycles = 0
    /\ lateErrors = 0
    /\ snapshot = <<>>
    /\ written = Collect(NewMetrics, EmptyVec)

\* ------------------------------------------------- the refresh goroutine
\* Mutant of Cycle0: the ticker is created before the first update call.
Cycle0_TickerFirst ==
    /\ Running
    /\ pc = "start"
    /\ pc' = "fetch"
    /\ kind' = "initial"
    /\ cycles' = cycles + 1
    /\ cycle0' = "running"
    /\ ticker' = "running"
    /\ lateCycles' = IF ctxDone THEN lateCycles + 1 ELSE lateCycles
    /\ UNCHANGED <<devices, idx, ctxDone, tickPending, main, store, scrape,
                   errors, stopCause, cancelAt, lateErrors, snapshot, written>>

\* go func() { if err := update(cmd.Context()) ...: the first call.
Cycle0 ==
    /\ Running
    /\ pc = "start"
    /\ pc' = "fetch"
    /\ kind' = "initial"
    /\ cycles' = cycles + 1
    /\ cycle0' = "running"
    /\ lateCycles' = IF ctxDone THEN lateCycles + 1 ELSE lateCycles
    /\ UNCHANGED <<devices, idx, ctxDone, timer, main, store, scrape, errors,
                   stopCause, cancelAt, lateErrors, snapshot, written>>

\* GetAll answers with a device list; update goes on to metrics.Set.  The
\* request carries the command's context, so no answer arrives once the
\* context is cancelled.
FetchOk(devs) ==
    /\ Running
    /\ pc = "fetch"
    /\ ~ctxDone
    /\ devices' = devs
    /\ idx' = 1
    /\ pc' = "set"
    /\ UNCHANGED <<kind, cycles, ctxDone, timer, main, store, scrape, errors,
                   cycle0, stopCause, late, snapshot, written>>

\* Mutant of FetchFail: the error path resets the gauges, dropping the
\* stale series.
FetchFail_Reset ==
    /\ Running
    /\ pc = "fetch"
    /\ errors' = errors + 1
    /\ lateErrors' = IF ctxDone THEN lateErrors + 1 ELSE lateErrors
    /\ kind' = "none"
    /\ metrics' = NewMetrics
    /\ IF kind = "initial"
       THEN /\ pc' = "newTicker"
            /\ cycle0' = "failed"
            /\ UNCHANGED <<ticker, stopCause>>
       ELSE /\ pc' = "done"
            /\ ticker' = "stopped"
            /\ stopCause' = "error"
            /\ UNCHANGED cycle0
    /\ UNCHANGED <<cycles, devices, idx, ctxDone, tickPending, main, counter,
                   lastMovement, scrape, cancelAt, lateCycles, snapshot,
                   written>>

\* Mutant of FetchFail: the error is fatal (log.Fatal in place of
\* logger.Error), the process exits with code 1.
FetchFail_Fatal ==
    /\ Running
    /\ pc = "fetch"
    /\ errors' = errors + 1
    /\ lateErrors' = IF ctxDone THEN lateErrors + 1 ELSE lateErrors
    /\ kind' = "none"
    /\ main' = "exit1"
    /\ IF kind = "initial"
       THEN /\ pc' = "newTicker"
            /\ cycle0' = "failed"
            /\ UNCHANGED <<ticker, stopCause>>
       ELSE /\ pc' = "done"
            /\ ticker' = "stopped"
            /\ stopCause' = "error"
            /\ UNCHANGED cycle0
    /\ UNCHANGED <<cycles, devices, idx, ctxDone, tickPending, store,
                   scrape, cancelAt, lateCycles, snapshot, written>>

\* Mutant of FetchFail: the first call's error ends the goroutine as an
\* error in the loop does, before any ticker exists.
FetchFail_AlwaysReturn ==
    /\ Running
    /\ pc = "fetch"
    /\ errors' = errors + 1
    /\ lateErrors' = IF ctxDone THEN lateErrors + 1 ELSE lateErrors
    /\ kind' = "none"
    /\ pc' = "done"
    /\ stopCause' = "error"
    /\ IF kind = "initial"
       THEN cycle0' = "failed" /\ UNCHANGED ticker
       ELSE ticker' = "stopped" /\ UNCHANGED cycle0
    /\ UNCHANGED <<cycles, devices, idx, ctxDone, tickPending, main, store,
                   scrape, cancelAt, lateCycles, snapshot, written>>

\* GetAll fails; update returns the error.  The first call's error is
\* logged and the goroutine goes on to create the ticker; the error of a
\* call in the loop is logged and the goroutine returns (the deferred
\* ticker.Stop runs).
FetchFail ==
    /\ Running
    /\ pc = "fetch"
    /\ errors' = errors + 1
    /\ lateErrors' = IF ctxDone THEN lateErrors + 1 ELSE lateErrors
    /\ kind' = "none"
    /\ IF kind = "initial"
       THEN /\ pc' = "newTicker"
            /\ cycle0' = "failed"
            /\ UNCHANGED <<ticker, stopCause>>
       ELSE /\ pc' = "done"
            /\ ticker' = "stopped"
            /\ stopCause' = "error"
            /\ UNCHANGED cycle0
    /\ UNCHANGED <<cycles, devices, idx, ctxDone, tickPending, main, store,
                   scrape, cancelAt, lateCycles, snapshot, written>>

\* One iteration of the loop of Metrics.Set over devices[idx]: the four
\* gauges as in cmd/root.go, then the movement-event counter and the
\* last-seen record as in the design document.
SetDevice ==
    /\ Running
    /\ pc = "set"
    /\ idx <= Len(devices)
    /\ LET device == devices[idx] IN
        /\ metrics' = SetGauges(metrics, device)
        /\ counter' = WithAdd(counter, Labels(device),
                              MovementIncrement(lastMovement, device))
        /\ lastMovement' = RecordMovement(lastMovement, device)
    /\ written' = Collect(metrics', counter')
    /\ idx' = idx + 1
    /\ UNCHANGED <<pc, kind, cycles, devices, ctxDone, timer, main, scrape,
                   errors, cycle0, stopCause, late, snapshot>>

\* Mutant of SetReturn: the loop of Metrics.Set gives up as soon as the
\* context is cancelled.
SetReturn_OnCancel ==
    /\ Running
    /\ pc = "set"
    /\ (idx > Len(devices) \/ ctxDone)
    /\ snapshot' = devices
    /\ kind' = "none"
    /\ IF kind = "initial"
       THEN pc' = "newTicker" /\ cycle0' = "ok"
       ELSE pc' = "select" /\ UNCHANGED cycle0
    /\ UNCHANGED <<cycles, devices, idx, ctxDone, timer, main, store, scrape,
                   errors, stopCause, late, written>>

\* The loop of Metrics.Set is over: Set and update return nil.  After the
\* first call the goroutine creates the ticker next; in the loop it logs
\* "metrics updated" and selects again.
SetReturn ==
    /\ Running
    /\ pc = "set"
    /\ idx > Len(devices)
    /\ snapshot' = devices
    /\ kind' = "none"
    /\ IF kind = "initial"
       THEN pc' = "newTicker" /\ cycle0' = "ok"
       ELSE pc' = "select" /\ UNCHANGED cycle0
    /\ UNCHANGED <<cycles, devices, idx, ctxDone, timer, main, store, scrape,
                   errors, stopCause, late, written>>

\* ticker := time.NewTicker(interval); defer ticker.Stop()
NewTicker ==
    /\ Running
    /\ pc = "newTicker"
    /\ ticker' = "running"
    /\ pc' = "select"
    /\ UNCHANGED <<kind, cycles, devices, idx, ctxDone, tickPending, main,
                   store, scrape, errors, cycle0, stopCause, late, snapshot,
                   written>>

\* select: among the cases that are ready Go picks one, with no priority.
SelectDone ==
    /\ Running
    /\ pc = "select"
    /\ ctxDone
    /\ pc' = "shutdown"
    /\ UNCHANGED <<kind, cycles, devices, idx, ctxDone, timer, main, store,
                   scrape, errors, cycle0, stopCause, late, snapshot, written>>

SelectTick ==
    /\ Running
    /\ pc = "select"
    /\ tickPending
    /\ tickPending' = FALSE
    /\ pc' = "tickCase"
    /\ UNCHANGED <<kind, cycles, devices, idx, ctxDone, ticker, main, store,
                   scrape, errors, cycle0, stopCause, late, snapshot, written>>

\* select: no case is ready, the goroutine blocks on both channels.
SelectPark ==
    /\ Running
    /\ pc = "select"
    /\ ~ctxDone
    /\ ~tickPending
    /\ pc' = "parked"
    /\ UNCHANGED <<kind, cycles, devices, idx, ctxDone, timer, main, store,
                   scrape, errors, cycle0, stopCause, late, snapshot, written>>

\* Mutant of Shutdown: break in place of return, which leaves the select
\* and not the loop.
Shutdown_Break ==
    /\ Running
    /\ pc = "shutdown"
    /\ pc' = "select"
    /\ UNCHANGED <<kind, cycles, devices, idx, ctxDone, timer, main, store,
                   scrape, errors, cycle0, stopCause, late, snapshot, written>>

\* Mutant of Shutdown: the goroutine returns without ticker.Stop (the
\* defer is missing).
Shutdown_NoStop ==
    /\ Running
    /\ pc = "shutdown"
    /\ pc' = "done"
    /\ stopCause' = "cancel"
    /\ UNCHANGED <<kind, cycles, devices, idx, ctxDone, timer, main, store,
                   scrape, errors, cycle0, late, snapshot, written>>

\* case <-cmd.Context().Done(): logger.Info("shutting down"); return
Shutdown ==
    /\ Running
    /\ pc = "shutdown"
    /\ pc' = "done"
    /\ ticker' = "stopped"
    /\ stopCause' = "cancel"
    /\ UNCHANGED <<kind, cycles, devices, idx, ctxDone, tickPending, main,
                   store, scrape, errors, cycle0, late, snapshot, written>>

\* case <-ticker.C: if err := update(cmd.Context()) ...
TickCase ==
    /\ Running
    /\ pc = "tickCase"
    /\ pc' = "fetch"
    /\ kind' = "periodic"
    /\ cycles' = cycles + 1
    /\ lateCycles' = IF ctxDone THEN lateCycles + 1 ELSE lateCycles
    /\ UNCHANGED <<devices, idx, ctxDone, timer, main, store, scrape, errors,
                   cycle0, stopCause, cancelAt, lateErrors, snapshot, written>>

\* ------------------------------------------------------- the environment
\* Update calls started plus those a delivered tick will start.
Scheduled ==
    cycles + (IF tickPending THEN 1 ELSE 0) + (IF pc = "tickCase" THEN 1 ELSE 0)

\* Mutant of Tick: the timer runs update itself (as a time.AfterFunc
\* callback would), so a tick that arrives during an update call starts the
\* next call on top of it.
Tick_Spawn ==
    /\ Running
    /\ ticker = "running"
    /\ ~tickPending
    /\ Scheduled < MaxCycles
    /\ IF pc = "parked"
       THEN pc' = "tickCase" /\ UNCHANGED <<tickPending, kind, cycles>>
       ELSE IF pc \in {"fetch", "set"}
            THEN /\ pc' = "fetch"
                 /\ kind' = "periodic"
                 /\ cycles' = cycles + 1
                 /\ UNCHANGED tickPending
            ELSE tickPending' = TRUE /\ UNCHANGED <<pc, kind, cycles>>
    /\ UNCHANGED <<devices, idx, ctxDone, ticker, main, store, scrape,
                   errors, cycle0, stopCause, late, snapshot, written>>

\* The interval elapses.  A goroutine blocked in the select is woken with
\* the tick; otherwise the tick waits in ticker.C (a tick that finds the
\* channel full is dropped).
Tick ==
    /\ Running
    /\ ticker = "running"
    /\ ~tickPending
    /\ Scheduled < MaxCycles
    /\ IF pc = "parked"
       THEN pc' = "tickCase" /\ UNCHANGED tickPending
       ELSE tickPending' = TRUE /\ UNCHANGED pc
    /\ UNCHANGED <<kind, cycles, devices, idx, ctxDone, ticker, main, store,
                   scrape, errors, cycle0, stopCause, late, snapshot, written>>

\* The owner of the command's context cancels it (a caller that runs the
\* command with a cancellable context; Execute itself passes none).  A
\* goroutine blocked in the select is woken with the Done case.
Cancel ==
    /\ Running
    /\ ~ctxDone
    /\ ctxDone' = TRUE
    /\ cancelAt' = pc
    /\ pc' = IF pc = "parked" THEN "shutdown" ELSE pc
    /\ UNCHANGED <<kind, cycles, devices, idx, timer, main, store, scrape,
                   errors, cycle0, stopCause, lateCycles, lateErrors, snapshot,
                   written>>

\* ----------------------------------------------------- RunE's own thread
\* The registry is built, the handler installed, ListenAndServe binds.
ListenOk ==
    /\ main = "setup"
    /\ main' = "serving"
    /\ UNCHANGED <<sched, ctxDone, timer, store, scrape, errors, cycle0,
                   stopCause, late, snapshot, written>>

\* ListenAndServe returns an error: RunE returns it, Execute calls
\* os.Exit(1).
ListenFail ==
    /\ main = "setup"
    /\ main' = "exit1"
    /\ UNCHANGED <<sched, ctxDone, timer, store, scrape, errors, cycle0,
                   stopCause, late, snapshot, written>>

\* The process is terminated from outside (SIGINT, SIGTERM).
Kill ==
    /\ Running
    /\ main' = "killed"
    /\ UNCHANGED <<sched, ctxDone, timer, store, scrape, errors, cycle0,
                   stopCause, late, snapshot, written>>

\* Mutant of Scrape: the handler serves another registry than the one the
\* gauges are registered with.
Scrape_OtherRegistry(c) ==
    /\ main = "serving"
    /\ scrape[c] = NoScrape
    /\ scrape' = [scrape EXCEPT ![c] = <<Collect(NewMetrics, EmptyVec)>>]
    /\ UNCHANGED <<sched, ctxDone, timer, main, store, errors, cycle0,
                   stopCause, late, snapshot, written>>

\* Mutant of Scrape: the handler waits for a lock that update holds from
\* the fetch to the end of Metrics.Set.
Scrape_Locked(c) ==
    /\ main = "serving"
    /\ pc \notin {"fetch", "set"}
    /\ scrape[c] = NoScrape
    /\ scrape' = [scrape EXCEPT ![c] = <<Collect(metrics, counter)>>]
    /\ UNCHANGED <<sched, ctxDone, timer, main, store, errors, cycle0,
                   stopCause, late, snapshot, written>>

\* GET /metrics from client c: the handler gathers the registry.
Scrape(c) ==
    /\ main = "serving"
    /\ scrape[c] = NoScrape
    /\ scrape' = [scrape EXCEPT ![c] = <<Collect(metrics, counter)>>]
    /\ UNCHANGED <<sched, ctxDone, timer, main, store, errors, cycle0,
                   stopCause, late, snapshot, written>>

\* The response to client c has been sent.
ScrapeDone(c) ==
    /\ main = "serving"
    /\ scrape[c] # NoScrape
    /\ scrape' = [scrape EXCEPT ![c] = NoScrape]
    /\ UNCHANGED <<sched, ctxDone, timer, main, store, errors, cycle0,
                   stopCause, late, snapshot, written>>

\* The whole program, polling an account that lists one device at a time,
\* run with a context that its caller may cancel.
Next ==
    \/ Cycle0
    \/ \E devs \in SingleResponses : FetchOk(devs)
    \/ FetchFail
    \/ SetDevice
    \/ SetReturn
    \/ NewTicker
    \/ SelectDone
    \/ SelectTick
    \/ SelectPark
    \/ Shutdown
    \/ TickCase
    \/ Tick
    \/ Cancel
    \/ ListenOk
    \/ ListenFail
    \/ Kill
    \/ \E c \in OneScraper : Scrape(c)
    \/ \E c \in OneScraper : ScrapeDone(c)

Spec == Init /\ [][Next]_vars

\* The refresh goroutine and the serving path side by side, two clients
\* scraping, in a process that stays alive.
ServeNext ==
    \/ Cycle0
    \/ \E devs \in SingleResponses : FetchOk(devs)
    \/ FetchFail
    \/ SetDevice
    \/ SetReturn
    \/ NewTicker
    \/ SelectDone
    \/ SelectTick
    \/ SelectPark
    \/ Shutdown
    \/ TickCase
    \/ Tick
    \/ Cancel
    \/ ListenOk
    \/ \E c \in Scrapers : Scrape(c)
    \/ \E c \in Scrapers : ScrapeDone(c)

ServeSpec == Init /\ [][ServeNext]_vars

\* The refresh goroutine and its ticker, polling an account with two
\* devices, one of which may be renamed, under a context that is never
\* cancelled (Execute runs the command with the background context);
\* RunE's own thread stays in its setup.
RefreshNext ==
    \/ Cycle0
    \/ \E devs \in ApiResponses : FetchOk(devs)
    \/ FetchFail
    \/ SetDevice
    \/ SetReturn
    \/ NewTicker
    \/ SelectTick
    \/ SelectPark
    \/ TickCase
    \/ Tick

RefreshSpec == Init /\ [][RefreshNext]_vars

\* A step of the refresh goroutine itself.
GoroutineStep ==
    \/ Cycle0
    \/ \E devs \in SingleResponses : FetchOk(devs)
    \/ FetchFail
    \/ SetDevice
    \/ SetReturn
    \/ NewTicker
    \/ SelectDone
    \/ SelectTick
    \/ SelectPark
    \/ Shutdown
    \/ TickCase

\* The refresh goroutine, its ticker and its context in a process that
\* stays alive, the Go scheduler being fair to the goroutine: a goroutine
\* that can run does run, and a request to the API returns.
LiveNext ==
    \/ Cycle0
    \/ \E devs \in SingleResponses : FetchOk(devs)
    \/ FetchFail
    \/ SetDevice
    \/ SetReturn
    \/ NewTicker
    \/ SelectDone
    \/ SelectTick
    \/ SelectPark
    \/ Shutdown
    \/ TickCase
    \/ Tick
    \/ Cancel

LiveSpec == Init /\ [][LiveNext]_vars /\ WF_vars(GoroutineStep)

\* ------------------------------------------------------------ properties
\* The step is one iteration of the loop of Metrics.Set.
SetStep == pc = "set" /\ idx <= Len(devices) /\ idx' = idx + 1

\* The step is an update call returning an error.
FailStep == pc = "fetch" /\ errors' = errors + 1

\* The child of vec under labels, if there is one.
Child(vec, labels) == IF labels \in DOMAIN vec THEN <<vec[labels]>> ELSE <<>>

\* C1: when an update call of the loop returns an error, the refresh
\* goroutine logs it and keeps scheduling: it stops only when the context
\* is cancelled, and its ticker keeps running for the next cycle.
C1_ErrorKeepsScheduling ==
    /\ stopCause # "error"
    /\ (errors > 0 /\ ~ctxDone) => (pc # "done" /\ ticker # "stopped")

\* C2: update cycle 0 runs at once when the goroutine starts, before the
\* ticker is created; no timer-driven cycle, and no tick, comes before
\* cycle 0 has returned, and cycle 0 runs while no ticker exists.
C2_Cycle0First ==
    /\ pc = "start" => (cycles = 0 /\ cycle0 = "pending")
    /\ cycle0 \in {"pending", "running"} =>
          (ticker = "none" /\ ~tickPending /\ kind # "periodic" /\ cycles <= 1)
    /\ (kind = "periodic" \/ tickPending \/ pc = "tickCase" \/ cycles > 1) =>
          (ticker # "none" /\ cycle0 \in {"ok", "failed"})

C2_Witness ==
    /\ cycle0 = "ok"
    /\ kind = "periodic"
    /\ pc = "set"
    /\ cycles = 2

\* C3, as claimed: a cancellation that arrives while the goroutine is
\* between cycles, at the select, is followed by no new update call and no
\* logged error, whenever the ticker fires.
C3_Original ==
    cancelAt \in {"select", "parked"} => (lateCycles = 0 /\ lateErrors = 0)

\* C3, amended: a cancellation that arrives while the goroutine is blocked
\* in the select (no case was ready when it began to wait) ends the loop:
\* no update call is started and no error is logged afterwards, also when
\* the ticker fires after the cancellation.
C3_CancelWhileBlocked ==
    cancelAt = "parked" =>
        /\ pc \in {"shutdown", "done"}
        /\ lateCycles = 0
        /\ lateErrors = 0
        /\ stopCause \in {"none", "cancel"}

C3_Witness ==
    /\ cancelAt = "parked"
    /\ tickPending
    /\ pc = "done"
    /\ stopCause = "cancel"

\* C4: an update call whose fetch fails does not reach Metrics.Set and
\* leaves every gauge, the counter and the last-seen map as they were; the
\* series change in the loop of Metrics.Set only.
C4_FailedCycleKeepsState ==
    [][/\ FailStep => (store' = store /\ pc' # "set" /\ idx' = idx)
       /\ store' # store => SetStep]_vars

C4_Witness ==
    /\ stopCause = "error"
    /\ cycles = 2
    /\ DOMAIN metrics.Temperature # {}

\* C5: once an update call has returned nil, every device of its list has
\* its temperature, humidity, illumination and movement gauges, under the
\* device's own label set, at the values its snapshot reports.
C5_GaugesEqualLatest ==
    pc # "set" =>
        \A i \in 1..Len(snapshot) :
            \A k \in DOMAIN snapshot[i].NewestEvents :
                Child(GaugeOf(metrics, k), Labels(snapshot[i]))
                    = <<snapshot[i].NewestEvents[k].Value>>

C5_Witness ==
    /\ pc = "parked"
    /\ cycles = 2
    /\ Len(snapshot) = 2
    /\ \E i \in 1..2 : DOMAIN snapshot[i].NewestEvents = KindSet

\* C6, as claimed: an iteration of Metrics.Set leaves the gauge of every
\* sensor kind that the device's snapshot lacks as it was: the same value,
\* or still no child.
C6_AbsentKindUnchanged ==
    [][SetStep =>
        \A k \in KindSet \ DOMAIN devices[idx].NewestEvents :
            Child(GaugeOf(metrics', k), Labels(devices[idx]))
                = Child(GaugeOf(metrics, k), Labels(devices[idx]))]_vars

C9_ExitOnlyExternal ==
    [][/\ FailStep => main' = main
       /\ main' # main =>
            /\ pc' = pc /\ errors' = errors
            /\ main' = "exit1" => main = "setup"
            /\ main' \in {"serving", "exit1", "killed"}]_vars

C9_Witness ==
    /\ stopCause = "error"
    /\ cycle0 = "failed"
    /\ main = "serving"
    /\ scrape["s1"] # NoScrape

\* C10: a scrape answers, for every series, the value the last update wrote
\* to it: nothing before an update has written, and never a value of
\* another origin.
C10_ScrapeLastWritten ==
    [][\A c \in Scrapers :
           (scrape'[c] # scrape[c] /\ scrape'[c] # NoScrape) =>
               scrape'[c] = <<written>>]_vars

C10_Witness ==
    /\ scrape["s1"] = <<written>>
    /\ cycles = 2
    /\ errors = 1
    /\ \E l \in DOMAIN written.nature_remo_movement :
           written.nature_remo_movement[l] = 1

\* C11, as claimed: the device series registered for export are exactly
\* nature_remo_temperature, nature_remo_humidity, nature_remo_illumination,
\* nature_remo_movement and nature_remo_movement_counter, and each of them,
\* and each of its children, carries exactly the label keys id, name,
\* firmware_version, mac_address, bt_mac_address, serial_number.
C11_SeriesAndLabels ==
    main = "serving" =>
        /\ Registered = {"nature_remo_temperature", "nature_remo_humidity",
                         "nature_remo_illumination", "nature_remo_movement",
                         "nature_remo_movement_counter"}
        /\ deviceLabels = {"id", "name", "firmware_version", "mac_address",
                           "bt_mac_address", "serial_number"}
        /\ \A n \in Registered :
               \A l \in DOMAIN Collect(metrics, counter)[n] :
                   DOMAIN l = {"id", "name", "firmware_version", "mac_address",
                               "bt_mac_address", "serial_number"}

\* C12: once the context is cancelled the refresh goroutine eventually
\* returns with its ticker stopped, and once it has returned it stays so:
\* no update call starts and no series changes afterwards.
C12_CancelStops ==
    /\ ctxDone ~> (pc = "done" /\ ticker = "stopped")
    /\ [][pc = "done" =>
            (pc' = "done" /\ cycles' = cycles /\ ticker' = "stopped"
                /\ store' = store)]_vars

C12_Witness ==
    /\ ctxDone
    /\ cancelAt = "fetch"
    /\ pc = "done"
    /\ ticker = "stopped"
    /\ stopCause = "cancel"

\* C13, as claimed: the cycle in flight when the context is cancelled goes
\* on as it would without the cancellation; in particular its fetch can
\* still answer with a device list.
C13_Original ==
    (Running /\ cancelAt = "fetch" /\ pc = "fetch" /\ lateCycles = 0) =>
        ENABLED (\E devs \in SingleResponses : FetchOk(devs))

\* C13, amended: a cycle that is in Metrics.Set when the context is
\* cancelled is not interrupted: every iteration still writes what it
\* writes without cancellation, and Set is left only at the end of the
\* list, update returning nil.  A cycle whose fetch is in flight is
\* interrupted: the request fails and the cycle changes no series.
C13_SetNotInterrupted ==
    [][/\ (ctxDone /\ pc = "set" /\ pc' # "set") =>
            /\ idx = Len(devices) + 1
            /\ snapshot' = devices
            /\ errors' = errors
            /\ pc' \in {"newTicker", "select"}
       /\ (ctxDone /\ SetStep) =>
            metrics' = SetGauges(metrics, devices[idx])
       /\ (ctxDone /\ pc = "fetch" /\ pc' # "fetch") =>
            (FailStep /\ store' = store)]_vars

C13_Witness ==
    /\ cancelAt = "set"
    /\ cycles = 2
    /\ lateCycles = 0
    /\ pc = "done"
    /\ stopCause = "cancel"
    /\ Len(snapshot) = 1
    /\ snapshot = devices

\* C14: the serving path and the refresh goroutine never wait for each
\* other.  Wherever the goroutine is (in a fetch, in Metrics.Set, blocked in
\* its select, returned), every client can start a scrape and every scrape
\* in progress can complete; and whatever scrapes are in progress, the
\* goroutine can take its next step unless it is blocked in its select or
\* has returned.
C14_NeverBlock ==
    /\ main = "serving" =>
          \A c \in Scrapers :
              IF scrape[c] = NoScrape
              THEN ENABLED Scrape(c)
              ELSE ENABLED ScrapeDone(c)
    /\ (Running /\ pc \notin {"parked", "done"}) => ENABLED GoroutineStep

C14_Witness ==
    /\ pc = "set"
    /\ kind = "periodic"
    /\ idx = 1
    /\ scrape["s1"] # NoScrape
    /\ scrape["s2"] # NoScrape
    /\ scrape["s1"] # scrape["s2"]

\* C15: at most one update call is in progress and only Metrics.Set,
\* called by the refresh goroutine, writes the series.  A call starts only
\* when no call is in progress (the one before has returned); the series
\* change only in an iteration of the loop of Metrics.Set; the loop takes
\* the devices of the list in order, one per iteration, writes the series
\* of that device, and Set returns only past the last device.
C15_OneCycleSequential ==
    [][/\ cycles' # cycles =>
            /\ kind = "none"
            /\ pc \in {"start", "tickCase"}
            /\ cycles' = cycles + 1
            /\ kind' # "none"
       /\ store' # store => (SetStep /\ kind # "none")
       /\ (pc = "set" /\ idx' # idx) =>
            /\ SetStep
            /\ devices' = devices
            /\ metrics' = SetGauges(metrics, devices[idx])
       /\ (pc = "set" /\ pc' # "set") =>
            /\ idx = Len(devices) + 1
            /\ kind' = "none"
            /\ snapshot' = devices]_vars

C15_Witness ==
    /\ kind = "periodic"
    /\ cycles = 2
    /\ pc = "set"
    /\ Len(devices) = 2
    /\ idx = 2
    /\ Labels(devices[1]) \in DOMAIN metrics.Temperature
    /\ Labels(devices[2]) \notin DOMAIN metrics.Temperature

\* C16: an error of the first update call is only logged.  The failing
\* step leaves the goroutine running, the process and the series as they
\* are, and takes the goroutine to the creation of the ticker; from there
\* the ticker is started and the goroutine enters its select, whether the
\* first call failed or not.
C16_Cycle0ErrorLogged ==
    [][/\ (FailStep /\ kind = "initial") =>
            /\ pc' = "newTicker"
            /\ cycle0' = "failed"
            /\ stopCause' = stopCause
            /\ ticker' = ticker
            /\ main' = main
            /\ store' = store
       /\ (pc = "newTicker" /\ pc' # pc) =>
            /\ ticker' = "running"
            /\ pc' = "select"]_vars

\* The first call failed and a call started by a tick has written the
\* series of a device.
C16_Witness ==
    /\ cycle0 = "failed"
    /\ errors = 1
    /\ cycles = 2
    /\ kind = "none"
    /\ pc = "select"
    /\ ticker = "running"
    /\ Len(snapshot) = 1
    /\ Labels(snapshot[1]) \in DOMAIN metrics.Temperature

\* C17: Metrics.Set touches only the series of the devices in its list.
\* In every step each series that exists stays in its vec, and it keeps its
\* value unless the step is the iteration of Metrics.Set over a device
\* with exactly that label set.  So the series of a device that is no
\* longer listed, and the series under the former name of a renamed device,
\* stay as they were last written.
C17_OnlyListedSeries ==
    [][/\ \A k \in KindSet :
            \A l \in DOMAIN GaugeOf(metrics, k) :
                /\ l \in DOMAIN GaugeOf(metrics', k)
                /\ (SetStep => l # Labels(devices[idx])) =>
                       GaugeOf(metrics', k)[l] = GaugeOf(metrics, k)[l]
       /\ \A l \in DOMAIN counter :
            /\ l \in DOMAIN counter'
            /\ (SetStep => l # Labels(devices[idx])) =>
                   counter'[l] = counter[l]]_vars

\* Two update calls after the one that listed both devices under the first
\* name: the Remo was renamed and the mini is gone from the list, and the
\* series of the old name and of the mini are still there beside the new.
C17_Witness ==
    /\ cycles = 3
    /\ kind = "none"
    /\ pc = "select"
    /\ Len(snapshot) = 1
    /\ snapshot[1].ID = "d1"
    /\ \E l \in DOMAIN metrics.Temperature :
           /\ l.id = "d1"
           /\ l # Labels(snapshot[1])
           /\ metrics.Temperature[l] # metrics.Temperature[Labels(snapshot[1])]
    /\ \E l \in DOMAIN metrics.Temperature : l.id = "d2"
    /\ \E l \in DOMAIN counter : l.id = "d2"
====
